---- MODULE Spec2Model ----
(***************************************************************************)
(* Model of backend_app.py: the /api/data handler (api_data) and its        *)
(* helpers clean_nan_inf, clean_row and classify_liquidity_from_category.   *)
(* One request is one behaviour: the CSV file on disk is fixed in the       *)
(* initial state and the handler runs statement group by statement group.   *)
(***************************************************************************)
EXTENDS Integers, Sequences, FiniteSets, TLC

\* Largest number of data rows of the CSV files that are enumerated.
MaxRows == 2

(***************************************************************************)
(* Cell values.  Every value is a record of one shape so that values of     *)
(* different Python types can be compared.  Numbers are held in tenths      *)
(* (3.5 is n = 35, the integer 2023 is n = 20230).                          *)
(*   str    a Python str               int    numpy int64 / Python int      *)
(*   float  a finite float             nan    float('nan')                  *)
(*   inf    float('inf')               ninf   float('-inf')                 *)
(*   none   Python None                NA     pandas.NA                     *)
(***************************************************************************)
Str(s) == [k |-> "str", s |-> s, n |-> 0]
IntV(n) == [k |-> "int", s |-> "", n |-> 10 * n]
FloatV(tenths) == [k |-> "float", s |-> "", n |-> tenths]
NaN == [k |-> "nan", s |-> "", n |-> 0]
PosInf == [k |-> "inf", s |-> "", n |-> 0]
NegInf == [k |-> "ninf", s |-> "", n |-> 0]
None == [k |-> "none", s |-> "", n |-> 0]
NA == [k |-> "NA", s |-> "", n |-> 0]

\* pandas' notion of a missing value (DataFrame.notnull is its negation).
IsNull(v) == v.k \in {"nan", "none", "NA"}

(***************************************************************************)
(* Column labels.                                                          *)
(***************************************************************************)
CAT == "אפיק השקעה"
LIQ == "סחירות"
YEAR == "שנה"
QUARTER == "רבעון"

required_cols ==
    << "אפיק השקעה", "מס מסלול", "שם מסלול אחיד", "שם חברה", "חברה מקוצר",
       "סוג חיסכון", "סוג קופה", "סוג מסלול", "ח.פ", "שנה", "רבעון",
       "תרומה", "משקל", "תשואה" >>

RequiredSet == {required_cols[i] : i \in DOMAIN required_cols}
AllCols == RequiredSet \cup {LIQ}

rename_map ==
    [c \in {"אפיק השקעה", "מס מסלול", "שם מסלול אחיד", "שם חברה", "חברה מקוצר",
            "סוג חיסכון", "סוג קופה", "ח.פ", "שנה", "רבעון", "תרומה", "משקל",
            "תשואה", "סחירות"} |->
        CASE c = "אפיק השקעה" -> "category"
          [] c = "מס מסלול" -> "track_id"
          [] c = "שם מסלול אחיד" -> "track_name"
          [] c = "שם חברה" -> "company"
          [] c = "חברה מקוצר" -> "company_short"
          [] c = "סוג חיסכון" -> "saving_type"
          [] c = "סוג קופה" -> "fund_type"
          [] c = "ח.פ" -> "company_id"
          [] c = "שנה" -> "year"
          [] c = "רבעון" -> "quarter"
          [] c = "תרומה" -> "contribution"
          [] c = "משקל" -> "weight"
          [] c = "תשואה" -> "yield"
          [] c = "סחירות" -> "liquidity"]

FIXED_CSV_NAME == "all_companies_all_yields.csv"

(***************************************************************************)
(* pandas.read_csv.  A CSV cell is text.  An empty cell is a missing value; *)
(* a column whose cells are all numeric literals or empty is parsed to      *)
(* numbers (int64 when every cell is an integer literal, float64            *)
(* otherwise); any other column keeps its cells as str, with NaN for the    *)
(* empty ones.  Cells are not trimmed.                                      *)
(***************************************************************************)
NumLit ==
    [s \in {"1", "101", "520", "2023", "2024", "0.5", "1.5", "3.5", "2023.5",
            "inf", "-inf"} |->
        CASE s = "1" -> IntV(1)
          [] s = "101" -> IntV(101)
          [] s = "520" -> IntV(520)
          [] s = "2023" -> IntV(2023)
          [] s = "2024" -> IntV(2024)
          [] s = "0.5" -> FloatV(5)
          [] s = "1.5" -> FloatV(15)
          [] s = "3.5" -> FloatV(35)
          [] s = "2023.5" -> FloatV(20235)
          [] s = "inf" -> PosInf
          [] s = "-inf" -> NegInf]

IsNumLit(s) == s \in DOMAIN NumLit
IsNaCell(s) == s = ""

\* A numeric column is int64 only if all of its values are integers;
\* otherwise every integer in it is a float.
AsFloat(v) == IF v.k = "int" THEN FloatV(v.n) ELSE v

Unify(vals, v) == IF \A w \in vals : w.k = "int" THEN v ELSE AsFloat(v)

ParseCell(s) == IF IsNaCell(s) THEN NaN ELSE NumLit[s]

read_csv(file) ==
    LET cells == file.cells
        colText(c) == {cells[i][c] : i \in DOMAIN cells}
        numeric(c) == /\ cells # << >>
                      /\ \A s \in colText(c) : IsNaCell(s) \/ IsNumLit(s)
        parsed(c) == {ParseCell(s) : s \in colText(c)}
    IN  [i \in DOMAIN cells |->
            [c \in file.columns |->
                IF numeric(c)
                THEN Unify(parsed(c), ParseCell(cells[i][c]))
                ELSE IF IsNaCell(cells[i][c]) THEN NaN ELSE Str(cells[i][c])]]

(***************************************************************************)
(* The CSV files that are enumerated.  A file is its header (the set of     *)
(* column labels) and its data rows.  Families of files vary the cells of   *)
(* a few columns and keep an ordinary value in the others.                  *)
(***************************************************************************)
BaseRow ==
    [c \in AllCols |->
        CASE c = "אפיק השקעה" -> "מניות"
          [] c = "מס מסלול" -> "101"
          [] c = "שם מסלול אחיד" -> "כללי"
          [] c = "שם חברה" -> "הראל"
          [] c = "חברה מקוצר" -> "הראל"
          [] c = "סוג חיסכון" -> "פנסיה"
          [] c = "סוג קופה" -> "גמל"
          [] c = "סוג מסלול" -> "כללי"
          [] c = "ח.פ" -> "520"
          [] c = "שנה" -> "2023"
          [] c = "רבעון" -> "1"
          [] c = "תרומה" -> "0.5"
          [] c = "משקל" -> "1.5"
          [] c = "תשואה" -> "3.5"
          [] c = "סחירות" -> "סחיר"]

CatCells == {"נדל\"ן", " הלוואות ", "מניות", ""}
LiqCells == {"סחיר", "לא סחיר", "נזיל", ""}
YearCells == {"2023", "2024", "2023.5", "inf", "abc", ""}
QuarterCells == {"1", "Q1", ""}
ContributionCells == {"0.5", "inf", ""}
WeightCells == {"1.5", "abc"}
YieldCells == {"3.5", "-inf", ""}
CompanyCells == {"הראל", "מגדל", "inf", ""}
SavingCells == {"פנסיה", "גמל", ""}

LiqRows == {[BaseRow EXCEPT ![CAT] = a, ![LIQ] = b] : a \in CatCells, b \in LiqCells}
YearRows == {[BaseRow EXCEPT ![YEAR] = a, ![QUARTER] = b] :
                a \in YearCells, b \in QuarterCells}
MeasureRows == {[BaseRow EXCEPT !["תרומה"] = a, !["משקל"] = b, !["תשואה"] = d] :
                a \in ContributionCells, b \in WeightCells, d \in YieldCells}
TextRows == {[BaseRow EXCEPT !["חברה מקוצר"] = a, !["סוג חיסכון"] = b] :
                a \in CompanyCells, b \in SavingCells}

Restrict(row, cols) == [c \in cols |-> row[c]]

Tables(rowSet, cols) ==
    UNION {[1..n -> {Restrict(r, cols) : r \in rowSet}] : n \in 0..MaxRows}

FilesOf(rowSet, cols) == {[columns |-> cols, cells |-> t] : t \in Tables(rowSet, cols)}

Files ==
    FilesOf(LiqRows, AllCols)
    \cup FilesOf(LiqRows, RequiredSet)
    \cup FilesOf(YearRows, RequiredSet)
    \cup FilesOf(MeasureRows, RequiredSet)
    \cup FilesOf(TextRows, AllCols)
    \cup {[columns |-> cols, cells |-> << Restrict(BaseRow, cols) >>] :
            cols \in SUBSET AllCols}

NoFile == [columns |-> {}, cells |-> << >>]

NoMeta ==
    [file |-> "", companies |-> << >>, tracks |-> << >>, categories |-> << >>,
     saving_types |-> << >>, fund_types |-> << >>, liquidity |-> << >>,
     years |-> << >>, min_year |-> None, max_year |-> None, total_rows |-> 0]

(***************************************************************************)
(* State.                                                                  *)
(***************************************************************************)
VARIABLES
    csv_exists,  \* csv_path.exists()
    csv,         \* the file at csv_path: header and text cells
    pc,          \* the statement group of api_data that runs next
    df,          \* the DataFrame: a sequence of rows, each column -> value
    loaded,      \* df as read_csv returned it
    resolved,    \* df after the liquidity column was computed or normalised
    rows,        \* the list `rows`
    meta,        \* the dict `meta`
    outcome,     \* "" while running; "ok", "http404", "http500" (the handler's
                 \* HTTPException for missing columns) or "crash" (an
                 \* exception the handler does not catch)
    detail,      \* the column labels named by the HTTP 500 detail
    error        \* the exception of a crash

vars == << csv_exists, csv, pc, df, loaded, resolved, rows, meta, outcome, detail, error >>

Init ==
    /\ csv_exists \in BOOLEAN
    /\ csv \in IF csv_exists THEN Files ELSE {NoFile}
    /\ pc = "exists"
    /\ df = << >>
    /\ loaded = << >>
    /\ resolved = << >>
    /\ rows = << >>
    /\ meta = NoMeta
    /\ outcome = ""
    /\ detail = << >>
    /\ error = ""

Raise(e) ==
    /\ pc' = "done"
    /\ outcome' = "crash"
    /\ error' = e

\* Lines 99-105.
CheckPath ==
    /\ pc = "exists"
    /\ IF ~csv_exists
       THEN /\ pc' = "done"
            /\ outcome' = "http404"
       ELSE /\ pc' = "read"
            /\ UNCHANGED outcome
    /\ UNCHANGED << csv_exists, csv, df, loaded, resolved, rows, meta, detail, error >>

\* Line 108.
ReadCsv ==
    /\ pc = "read"
    /\ df' = read_csv(csv)
    /\ loaded' = df'
    /\ pc' = "validate"
    /\ UNCHANGED << csv_exists, csv, resolved, rows, meta, outcome, detail, error >>

\* A validator that stops at the first missing column.
missing_first ==
    LET m == SelectSeq(required_cols, LAMBDA c : c \notin csv.columns)
    IN  IF m = << >> THEN m ELSE << m[1] >>

\* Line 129: the missing required columns, in the order of required_cols.
missing == SelectSeq(required_cols, LAMBDA c : c \notin csv.columns)

\* Lines 129-134.
ValidateSchema ==
    /\ pc = "validate"
    /\ IF missing # << >>
       THEN /\ pc' = "done"
            /\ outcome' = "http500"
            /\ detail' = missing
       ELSE /\ pc' = "resolve"
            /\ UNCHANGED << outcome, detail >>
    /\ UNCHANGED << csv_exists, csv, df, loaded, resolved, rows, meta, error >>

(***************************************************************************)
(* classify_liquidity_from_category, lines 65-75.                          *)
(***************************************************************************)
\* str(value) of a cell.
PyStr(v) ==
    CASE v.k = "str" -> v.s
      [] v.k = "nan" -> "nan"
      [] v.k = "inf" -> "inf"
      [] v.k = "ninf" -> "-inf"
      [] v.k = "none" -> "None"
      [] v.k = "NA" -> "<NA>"
      [] v.k = "int" -> ToString(v.n \div 10)
      [] v.k = "float" -> ToString(v.n \div 10) \o "." \o ToString(v.n % 10)

\* str.strip() on the labels that occur: only one of them is padded.
strip(s) == IF s = " הלוואות " THEN "הלוואות" ELSE s

illiquid == {"נדל\"ן", "קרנות השקעה", "הלוואות"}

classify_liquidity_from_category(hebrew_category) ==
    IF hebrew_category = None
    THEN None
    ELSE IF strip(PyStr(hebrew_category)) \in illiquid
         THEN Str("לא סחיר")
         ELSE Str("סחיר")

(***************************************************************************)
(* The liquidity column, lines 136-144.                                    *)
(***************************************************************************)
\* Elementwise ==: a missing value equals nothing, itself included.
PdEq(a, b) == a = b /\ ~IsNull(a)

\* df.index[df["סחירות"] == v]
SameLiquidity(frame, v) == {j \in DOMAIN frame : PdEq(frame[j][LIQ], v)}

Canonical(v) == v \in {Str("סחיר"), Str("לא סחיר")}

\* .iloc[0] of an empty selection raises IndexError.
LookupFails(frame) ==
    \E i \in DOMAIN frame :
        ~Canonical(frame[i][LIQ]) /\ SameLiquidity(frame, frame[i][LIQ]) = {}

FirstOf(S) == CHOOSE j \in S : \A m \in S : j <= m

\* The lambda of lines 142-143, applied to the value v of one row.
NormalizeLiquidity(frame, v) ==
    IF ~Canonical(v)
    THEN classify_liquidity_from_category(frame[FirstOf(SameLiquidity(frame, v))][CAT])
    ELSE v

WithLiquidity(row, v) ==
    [c \in (DOMAIN row) \cup {LIQ} |-> IF c = LIQ THEN v ELSE row[c]]

ResolveLiquidity ==
    /\ pc = "resolve"
    /\ IF LIQ \notin csv.columns
       THEN /\ df' = [i \in DOMAIN df |->
                        WithLiquidity(df[i], classify_liquidity_from_category(df[i][CAT]))]
            /\ resolved' = df'
            /\ pc' = "rename"
            /\ UNCHANGED << outcome, error >>
       ELSE IF LookupFails(df)
            THEN /\ Raise("IndexError")
                 /\ UNCHANGED << df, resolved >>
            ELSE /\ df' = [i \in DOMAIN df |->
                             WithLiquidity(df[i], NormalizeLiquidity(df, df[i][LIQ]))]
                 /\ resolved' = df'
                 /\ pc' = "rename"
                 /\ UNCHANGED << outcome, error >>
    /\ UNCHANGED << csv_exists, csv, loaded, rows, meta, detail >>

(***************************************************************************)
(* df.rename(columns=rename_map), lines 146-164.                           *)
(***************************************************************************)
Renamed(c) == IF c \in DOMAIN rename_map THEN rename_map[c] ELSE c

RenameRow(row) ==
    [c2 \in {Renamed(c) : c \in DOMAIN row} |->
        row[CHOOSE c \in DOMAIN row : Renamed(c) = c2]]

RenameColumns ==
    /\ pc = "rename"
    /\ df' = [i \in DOMAIN df |-> RenameRow(df[i])]
    /\ pc' = "coerce"
    /\ UNCHANGED << csv_exists, csv, loaded, resolved, rows, meta, outcome, detail, error >>

(***************************************************************************)
(* Type conversions, lines 166-171.                                        *)
(***************************************************************************)
\* pd.to_numeric(errors="coerce") of one value.
to_numeric(v) ==
    IF v.k = "str"
    THEN IF IsNumLit(v.s) THEN NumLit[v.s] ELSE NaN
    ELSE v

NumericColumn(frame, col) ==
    LET vals == {to_numeric(frame[i][col]) : i \in DOMAIN frame}
    IN  [i \in DOMAIN frame |-> Unify(vals, to_numeric(frame[i][col]))]

\* .astype("Int64") refuses a float column that holds a fraction or an
\* infinity (TypeError: cannot safely cast non-equivalent float64 to int64).
CastFails(column) ==
    \E i \in DOMAIN column :
        \/ column[i].k \in {"inf", "ninf"}
        \/ column[i].k \in {"int", "float"} /\ column[i].n % 10 # 0

astype_Int64(v) == IF v.k = "nan" THEN NA ELSE [k |-> "int", s |-> "", n |-> v.n]

SetColumn(frame, col, column) ==
    [i \in DOMAIN frame |-> [frame[i] EXCEPT ![col] = column[i]]]

CoerceTypes ==
    /\ pc = "coerce"
    /\ LET y == NumericColumn(df, "year")
           q == NumericColumn(df, "quarter")
           ints == SetColumn(SetColumn(df, "year", [i \in DOMAIN df |-> astype_Int64(y[i])]),
                             "quarter", [i \in DOMAIN df |-> astype_Int64(q[i])])
           f1 == SetColumn(ints, "contribution", NumericColumn(ints, "contribution"))
           f2 == SetColumn(f1, "weight", NumericColumn(f1, "weight"))
           f3 == SetColumn(f2, "yield", NumericColumn(f2, "yield"))
       IN  IF CastFails(y) \/ CastFails(q)
           THEN /\ Raise("TypeError:astype")
                /\ UNCHANGED df
           ELSE /\ df' = f3
                /\ pc' = "replace"
                /\ UNCHANGED << outcome, error >>
    /\ UNCHANGED << csv_exists, csv, loaded, resolved, rows, meta, detail >>

(***************************************************************************)
(* Lines 173-177.                                                          *)
(***************************************************************************)
\* df.replace([math.inf, -math.inf], pd.NA)
replace_inf(v) == IF v.k \in {"inf", "ninf"} THEN NA ELSE v

ReplaceInf ==
    /\ pc = "replace"
    /\ df' = [i \in DOMAIN df |-> [c \in DOMAIN df[i] |-> replace_inf(df[i][c])]]
    /\ pc' = "where"
    /\ UNCHANGED << csv_exists, csv, loaded, resolved, rows, meta, outcome, detail, error >>

IsObjectColumn(frame, c) == \E i \in DOMAIN frame : frame[i][c].k = "str"

\* df.where(df.notnull(), None).  In an object column a missing value
\* becomes None.  In a numeric column it depends on the pandas at hand:
\* either the column is turned into objects and holds None (keep = FALSE),
\* or None is taken as the column's own missing value, NaN in a float64
\* column and pd.NA in an Int64 column (keep = TRUE).
where_notnull(frame, c, v, keep) ==
    IF ~IsNull(v)
    THEN v
    ELSE IF IsObjectColumn(frame, c) \/ ~keep
         THEN None
         ELSE IF c \in {"year", "quarter"} THEN NA ELSE NaN

WhereNotNull ==
    /\ pc = "where"
    /\ \E keep \in BOOLEAN :
        df' = [i \in DOMAIN df |->
                 [c \in DOMAIN df[i] |-> where_notnull(df, c, df[i][c], keep)]]
    /\ pc' = "records"
    /\ UNCHANGED << csv_exists, csv, loaded, resolved, rows, meta, outcome, detail, error >>

(***************************************************************************)
(* clean_nan_inf and clean_row, lines 52-63; the records, lines 179-183.    *)
(***************************************************************************)
\* A guard without the math.isnan test.
clean_inf_only(value) ==
    IF value = None
    THEN None
    ELSE IF value.k \in {"inf", "ninf"} THEN None ELSE value

clean_nan_inf(value) ==
    IF value = None
    THEN None
    ELSE IF value.k = "nan"
         THEN None
         ELSE IF value.k \in {"inf", "ninf"} THEN None ELSE value

clean_row(row) == [c \in DOMAIN row |-> clean_nan_inf(row[c])]

BuildRows ==
    /\ pc = "records"
    /\ rows' = [i \in DOMAIN df |-> clean_row(df[i])]
    /\ pc' = "meta"
    /\ UNCHANGED << csv_exists, csv, df, loaded, resolved, meta, outcome, detail, error >>

(***************************************************************************)
(* meta, lines 185-203.                                                    *)
(***************************************************************************)
\* Python's order of str (by code point) on the labels that occur.
StrOrder ==
    << " הלוואות ", "inf", "גמל", "הלוואות", "הראל", "כללי", "לא סחיר", "מגדל",
       "מניות", "נדל\"ן", "נזיל", "סחיר", "פנסיה", "קרנות השקעה" >>

Rank(s) == CHOOSE i \in DOMAIN StrOrder : StrOrder[i] = s

\* The position of a value in Python's order of its type.
Key(v) == IF v.k = "str" THEN Rank(v.s) ELSE v.n

RECURSIVE sorted(_)
sorted(S) ==
    IF S = {}
    THEN << >>
    ELSE LET least == CHOOSE x \in S : \A y \in S : Key(x) <= Key(y)
         IN  << least >> \o sorted(S \ {least})

\* {r[col] for r in rows if r.get(col) is not None}
ColumnValues(col) == {rows[i][col] : i \in {j \in DOMAIN rows : rows[j][col] # None}}

\* Comparing pd.NA with anything gives pd.NA, whose truth value is a
\* TypeError; a one-element set is sorted without a comparison.
SortFails(S) == Cardinality(S) >= 2 /\ NA \in S

\* The non-null values in row order, neither deduplicated nor sorted.
unique_unsorted(col) ==
    LET keep == SelectSeq([i \in DOMAIN rows |-> rows[i][col]], LAMBDA v : v # None)
    IN  keep

unique_sorted(col) == sorted(ColumnValues(col))

MetaColumns ==
    {"company_short", "track_name", "category", "saving_type", "fund_type",
     "liquidity", "year"}

BuildMeta ==
    /\ pc = "meta"
    /\ IF \E col \in MetaColumns : SortFails(ColumnValues(col))
       THEN /\ Raise("TypeError:sorted")
            /\ UNCHANGED meta
       ELSE /\ LET years == unique_sorted("year")
               IN  meta' =
                     [file |-> FIXED_CSV_NAME,
                      companies |-> unique_sorted("company_short"),
                      tracks |-> unique_sorted("track_name"),
                      categories |-> unique_sorted("category"),
                      saving_types |-> unique_sorted("saving_type"),
                      fund_types |-> unique_sorted("fund_type"),
                      liquidity |-> unique_sorted("liquidity"),
                      years |-> years,
                      min_year |-> IF years # << >> THEN years[1] ELSE None,
                      max_year |-> IF years # << >> THEN years[Len(years)] ELSE None,
                      total_rows |-> Len(rows)]
            /\ pc' = "respond"
            /\ UNCHANGED << outcome, error >>
    /\ UNCHANGED << csv_exists, csv, df, loaded, resolved, rows, detail >>

(***************************************************************************)
(* JSONResponse, lines 205-213: the payload is rendered to JSON when the    *)
(* response is built, with NaN and the infinities refused; pd.NA is not a   *)
(* JSON value.                                                             *)
(***************************************************************************)
MetaLists ==
    {"companies", "tracks", "categories", "saving_types", "fund_types",
     "liquidity", "years"}

PayloadValues ==
    {rows[i][c] : i \in DOMAIN rows, c \in UNION {DOMAIN rows[j] : j \in DOMAIN rows}}
    \cup UNION {{meta[f][i] : i \in DOMAIN meta[f]} : f \in MetaLists}
    \cup {meta.min_year, meta.max_year}

Serializable(v) == v.k \notin {"NA", "nan", "inf", "ninf"}

Respond ==
    /\ pc = "respond"
    /\ IF \E v \in PayloadValues : ~Serializable(v)
       THEN Raise("TypeError:json")
       ELSE /\ pc' = "done"
            /\ outcome' = "ok"
            /\ UNCHANGED error
    /\ UNCHANGED << csv_exists, csv, df, loaded, resolved, rows, meta, detail >>

Next ==
    \/ CheckPath
    \/ ReadCsv
    \/ ValidateSchema
    \/ ResolveLiquidity
    \/ RenameColumns
    \/ CoerceTypes
    \/ ReplaceInf
    \/ WhereNotNull
    \/ BuildRows
    \/ BuildMeta
    \/ Respond

Spec == Init /\ [][Next]_vars

(***************************************************************************)
(* Properties.                                                             *)
(***************************************************************************)
NonFinite(v) == v.k \in {"nan", "inf", "ninf"}

\* The handler got past schema validation (the file exists and no required
\* column is missing).
SchemaPassed == pc \notin {"exists", "read", "validate"} /\ outcome \notin {"http404", "http500"}

\* The liquidity column has been computed or normalised.
LiquidityResolved == SchemaPassed /\ pc # "resolve" /\ error # "IndexError"

IlliquidLabel == Str("לא סחיר")
LiquidLabel == Str("סחיר")

C2_IlliquidRule ==
    outcome = "ok" =>
        \A i \in DOMAIN rows :
            LET cat == loaded[i][CAT]
            IN  /\ (cat.k = "str" /\ strip(cat.s) \in illiquid)
                       => rows[i]["liquidity"] = IlliquidLabel
                /\ (~IsNull(cat) /\ ~(cat.k = "str" /\ strip(cat.s) \in illiquid))
                       => rows[i]["liquidity"] = LiquidLabel

\* C3 (P2, liquidity closure): in every returned record liquidity is the
\* liquid label, the illiquid label or null, and it is null exactly when
\* the row's category cell was missing.
C3_LiquidityClosure ==
    outcome = "ok" =>
        \A i \in DOMAIN rows :
            /\ rows[i]["liquidity"] \in {LiquidLabel, IlliquidLabel, None}
            /\ rows[i]["liquidity"] = None <=> IsNull(loaded[i][CAT])

\* C4 (P4, schema completeness): once the schema was validated, if some
\* required column is absent the outcome is the HTTP 500 whose detail names
\* exactly the absent required columns and nothing was produced; if none is
\* absent that error is not raised.  14 columns are required and the
\* liquidity column is not one of them.
C4_SchemaCompleteness ==
    /\ Cardinality(RequiredSet) = 14
    /\ LIQ \notin RequiredSet
    /\ (csv_exists /\ pc \notin {"exists", "read", "validate"}) =>
           LET absent == RequiredSet \ csv.columns
           IN  /\ absent # {} =>
                       /\ outcome = "http500"
                       /\ {detail[i] : i \in DOMAIN detail} = absent
                       /\ rows = << >>
                       /\ meta = NoMeta
               /\ absent = {} => outcome # "http500" /\ detail = << >>

\* The schema error names more than one missing column.
C4_Witness == outcome = "http500" /\ Len(detail) >= 2

\* C5 (the Derived-Field Resolver never throws): for a file that passes
\* schema validation the liquidity step does not raise, whatever the
\* category and liquidity cells hold.
C5_ResolverNeverThrows ==
    (pc = "done" /\ csv_exists /\ missing = << >>) => error # "IndexError"

MetaColumnOf(f) ==
    CASE f = "companies" -> "company_short"
      [] f = "tracks" -> "track_name"
      [] f = "categories" -> "category"
      [] f = "saving_types" -> "saving_type"
      [] f = "fund_types" -> "fund_type"
      [] f = "liquidity" -> "liquidity"
      [] f = "years" -> "year"

\* C6 (P5, metadata consistency): in every returned payload total_rows is
\* the number of rows; min_year and max_year are both null exactly when no
\* row has a non-null year and otherwise are the least and the greatest
\* non-null year; every list of meta is strictly ascending (sorted, no
\* duplicates), holds no null and holds exactly the non-null values of its
\* column.
C6_MetaConsistency ==
    outcome = "ok" =>
        /\ meta.total_rows = Len(rows)
        /\ LET ys == {rows[i]["year"] : i \in DOMAIN rows} \ {None}
           IN  /\ (meta.min_year = None /\ meta.max_year = None) <=> ys = {}
               /\ meta.min_year = None <=> meta.max_year = None
               /\ ys # {} =>
                      /\ meta.min_year \in ys
                      /\ meta.max_year \in ys
                      /\ \A y \in ys : meta.min_year.n <= y.n /\ y.n <= meta.max_year.n
        /\ \A f \in MetaLists :
               LET l == meta[f]
               IN  /\ \A i \in DOMAIN l : \A j \in DOMAIN l : i < j => Key(l[i]) < Key(l[j])
                   /\ \A i \in DOMAIN l : l[i] # None
                   /\ {l[i] : i \in DOMAIN l}
                        = {rows[i][MetaColumnOf(f)] : i \in DOMAIN rows} \ {None}

\* A payload whose two rows carry two years in descending order.
C6_Witness ==
    /\ outcome = "ok"
    /\ Len(rows) = 2
    /\ rows[1]["year"] = IntV(2024)
    /\ rows[2]["year"] = IntV(2023)

\* C7 (pipeline outcome ordering): every invocation ends in exactly one of
\* NotFound (404), the schema error (500) or a payload; with the file absent
\* it is NotFound and nothing was validated or produced; with the file
\* present and a required column missing it is the schema error and nothing
\* was produced.
C7_OutcomeOrdering ==
    pc = "done" =>
        /\ outcome \in {"http404", "http500", "ok"}
        /\ ~csv_exists =>
               outcome = "http404" /\ detail = << >> /\ rows = << >> /\ meta = NoMeta
        /\ (csv_exists /\ missing # << >>) =>
               outcome = "http500" /\ rows = << >> /\ meta = NoMeta
        /\ outcome = "ok" => csv_exists /\ missing = << >>

CanonicalKeys ==
    {"category", "track_id", "track_name", "company", "company_short",
     "saving_type", "fund_type", "track_type", "company_id", "year", "quarter",
     "contribution", "weight", "yield", "liquidity"}

\* C8 (canonical keys): the keys of every returned record are canonical
\* names only, and the required column סוג מסלול is under the key track_type.
C8_CanonicalKeys ==
    outcome = "ok" =>
        \A i \in DOMAIN rows :
            /\ DOMAIN rows[i] \subseteq CanonicalKeys
            /\ "track_type" \in DOMAIN rows[i]

\* C9 (year/quarter coercion is total): for a file that passes schema
\* validation and whose liquidity column is resolved, the request ends with
\* a payload in which every year and quarter cell that does not parse as a
\* number is null and every one that does is that number truncated to an
\* integer; the coercion never raises and never aborts the pipeline.
C9_CoercionTotal ==
    (pc = "done" /\ LiquidityResolved) =>
        /\ outcome = "ok"
        /\ \A i \in DOMAIN loaded : \A c \in {YEAR, QUARTER} :
               LET v == to_numeric(loaded[i][c])
               IN  rows[i][Renamed(c)] =
                       IF v.k \in {"int", "float"}
                       THEN IntV(v.n \div 10)
                       ELSE None

\* C10 (per-row liquidity resolution): when the file has a liquidity
\* column, a row whose value is one of the two canonical labels keeps it
\* and any other row gets the value derived from its own category.
C10_PerRowResolution ==
    (LiquidityResolved /\ LIQ \in csv.columns) =>
        \A i \in DOMAIN loaded :
            resolved[i][LIQ] =
                IF Canonical(loaded[i][LIQ])
                THEN loaded[i][LIQ]
                ELSE classify_liquidity_from_category(loaded[i][CAT])
====
